---------------------------- MODULE Spec2Model ----------------------------
(***************************************************************************)
(* A model of csvn.wc.WC (src/csvn/wc.py): a working-copy handle that owns *)
(* a long-lived pool, a scratch pool (iterpool) and a client context, and  *)
(* six operations that canonicalize their path arguments into the scratch  *)
(* pool, invoke the engine, and clear the scratch pool.                    *)
(*                                                                         *)
(* Strings are sequences of one-character strings, so that os.path.join,   *)
(* svn_path_canonicalize and svn_opt_parse_revision are computed character *)
(* by character.                                                           *)
(***************************************************************************)
EXTENDS Integers, Sequences, FiniteSets, TLC

VARIABLES
    mode,       \* how the threads use handles: "single", "shared", "locked", "own"
    hstate,     \* hstate[h]: "none" (WC() not yet called), "open", "failed"
    path,       \* path[h]: self.path
    client,     \* client[h]: self.client, "NULL" or the context created at open
    pool,       \* pool[h]: self.pool, "none" or "live"
    iterpool,   \* iterpool[p]: the allocations the scratch pool p holds
    openErr,    \* openErr[h]: the error WC() raised, or "none"
    ref,        \* ref[t]: the handle thread t holds a reference to, or 0
    pc,         \* pc[t]: "idle", "parse", "args", "engine", "clear"
    call,       \* call[t]: the operation thread t is executing and its arguments
    ncall,      \* ncall[t]: number of calls thread t has started
    built,      \* built[t]: the canonical paths the current call has built
    inflight,   \* inflight[t]: the engine invocation in flight
    clears,     \* clears[t]: iterpool.clear() executions of the current call
    result,     \* result[t]: outcome of the last call that returned
    lock        \* holder of the external mutex ("locked" mode), or 0

vars == <<mode, hstate, path, client, pool, iterpool, openErr, ref, pc, call,
          ncall, built, inflight, clears, result, lock>>

---------------------------------------------------------------------------
(* Bounds *)

MaxCalls == 2
MaxListLen == 2
MaxPathLen == 3
MaxRootLen == 2
MaxCallsMT == 1

Threads == {1, 2}
Handles == {1, 2}

PathChars == {"/", ".", "a"}

Strs(n) == UNION {[1..k -> PathChars] : k \in 0..n}

SeqsUpTo(S, n) == UNION {[1..k -> S] : k \in 0..n}

\* Paths and roots of the operation-lifecycle specifications.
ArgPaths == {<<>>, <<"a">>, <<"/", "a">>, <<".", "/", "a", "/">>}
Roots == {<<>>, <<"a">>, <<"/", "a">>, <<".">>}

\* Revision strings: "", "1", "HEAD", "x", "1x", "1:HEAD".
Revs == {<<>>, <<"1">>, <<"H", "E", "A", "D">>, <<"x">>, <<"1", "x">>,
         <<"1", ":", "H", "E", "A", "D">>}

---------------------------------------------------------------------------
(* os.path.join(a, b) of posixpath, for two components. *)

os_path_join(a, b) ==
    IF b # <<>> /\ b[1] = "/" THEN b
    ELSE IF a = <<>> \/ a[Len(a)] = "/" THEN a \o b
    ELSE a \o <<"/">> \o b

---------------------------------------------------------------------------
(* svn_path_canonicalize: keep a leading "/", drop empty and "." segments, *)
(* drop the trailing "/" when at least one segment was kept.               *)

RECURSIVE SegEnd(_, _)
SegEnd(s, i) == IF i <= Len(s) /\ s[i] # "/" THEN SegEnd(s, i + 1) ELSE i

RECURSIVE CanonLoop(_, _, _, _)
CanonLoop(s, i, dst, nsegs) ==
    IF i > Len(s) THEN <<dst, nsegs>>
    ELSE LET next == SegEnd(s, i)
             seglen == next - i
             noop == seglen = 0 \/ (seglen = 1 /\ s[i] = ".")
             more == next <= Len(s)
             upto == IF more THEN next ELSE next - 1
         IN  CanonLoop(s,
                       IF more THEN next + 1 ELSE next,
                       IF noop THEN dst ELSE dst \o SubSeq(s, i, upto),
                       IF noop THEN nsegs ELSE nsegs + 1)

svn_path_canonicalize(s) ==
    LET lead == s # <<>> /\ s[1] = "/"
        r == CanonLoop(s, IF lead THEN 2 ELSE 1,
                       IF lead THEN <<"/">> ELSE <<>>, 0)
        dst == r[1]
    IN  IF r[2] > 0 /\ dst[Len(dst)] = "/"
        THEN SubSeq(dst, 1, Len(dst) - 1)
        ELSE dst

---------------------------------------------------------------------------
(* WC._build_path and WC._build_path_list *)

_build_path_nocanon(root, p) == os_path_join(root, p)

_build_path(root, p) == svn_path_canonicalize(os_path_join(root, p))

\* The "path or list of paths" argument: a str, or a list of str.
Single(p) == [tag |-> "str", val |-> p]
Many(ps) == [tag |-> "list", val |-> ps]

\* Iterating a str yields its characters, each a str of length one.
Iterate(a) ==
    IF a.tag = "str" THEN [i \in 1..Len(a.val) |-> <<a.val[i]>>] ELSE a.val

_build_path_list_nowrap(root, a) ==
    [i \in 1..Len(Iterate(a)) |-> _build_path(root, Iterate(a)[i])]

_build_path_list(root, a) ==
    LET paths == IF a.tag = "str" THEN <<a.val>> ELSE a.val
    IN  [i \in 1..Len(paths) |-> _build_path(root, paths[i])]

---------------------------------------------------------------------------
(* svn_opt_parse_revision(&start, &end, arg, pool): returns 0 on success   *)
(* and -1 on failure, writing into start (and end) as far as it got.       *)

Digits == <<"0", "1", "2", "3", "4", "5", "6", "7", "8", "9">>
IsDigit(c) == \E d \in 1..Len(Digits) : Digits[d] = c
DigitVal(c) == (CHOOSE d \in 1..Len(Digits) : Digits[d] = c) - 1
IsAlpha(c) == c \in {"A", "B", "C", "D", "E", "H", "I", "M", "O", "P", "R",
                     "S", "T", "V", "x"}

RECURSIVE DigitsEnd(_, _)
DigitsEnd(s, i) ==
    IF i <= Len(s) /\ IsDigit(s[i]) THEN DigitsEnd(s, i + 1) ELSE i

RECURSIVE AlphaEnd(_, _)
AlphaEnd(s, i) ==
    IF i <= Len(s) /\ IsAlpha(s[i]) THEN AlphaEnd(s, i + 1) ELSE i

RECURSIVE StrToRev(_)
StrToRev(s) ==
    IF s = <<>> THEN 0
    ELSE 10 * StrToRev(SubSeq(s, 1, Len(s) - 1)) + DigitVal(s[Len(s)])

\* svn_opt_revision_t() as ctypes constructs it: zero-filled, and kind 0 is
\* svn_opt_revision_unspecified.
UnspecifiedRev == [kind |-> "unspecified", number |-> 0]

\* revision_from_word: the kind a keyword names, or "" if it names none.
revision_from_word(w) ==
    CASE w = <<"H", "E", "A", "D">> -> "head"
      [] w = <<"P", "R", "E", "V">> -> "previous"
      [] w = <<"B", "A", "S", "E">> -> "base"
      [] w = <<"C", "O", "M", "M", "I", "T", "T", "E", "D">> -> "committed"
      [] OTHER -> ""

\* parse_one_rev(revision, str): [rev, end], end = 0 standing for NULL,
\* otherwise the position after the revision parsed from position i.
parse_one_rev(rev, s, i) ==
    IF i > Len(s) THEN [rev |-> rev, end |-> 0]
    ELSE IF IsDigit(s[i])
    THEN LET e == DigitsEnd(s, i + 1)
         IN  [rev |-> [kind |-> "number", number |-> StrToRev(SubSeq(s, i, e - 1))],
              end |-> e]
    ELSE IF IsAlpha(s[i])
    THEN LET e == AlphaEnd(s, i + 1)
             k == revision_from_word(SubSeq(s, i, e - 1))
         IN  IF k = "" THEN [rev |-> rev, end |-> 0]
             ELSE [rev |-> [kind |-> k, number |-> 0], end |-> e]
    ELSE [rev |-> rev, end |-> 0]

svn_opt_parse_revision(start, arg) ==
    LET left == parse_one_rev(start, arg, 1)
        right == left.end
    IN  IF right # 0 /\ right <= Len(arg) /\ arg[right] = ":"
        THEN LET e == parse_one_rev(UnspecifiedRev, arg, right + 1).end
             IN  [status |-> IF e = 0 \/ e <= Len(arg) THEN -1 ELSE 0,
                  rev |-> left.rev]
        ELSE [status |-> IF right = 0 \/ right <= Len(arg) THEN -1 ELSE 0,
              rev |-> left.rev]

---------------------------------------------------------------------------
(* Calls: an operation and its arguments. *)

NoCall == [op |-> "none", a |-> Single(<<>>), b |-> <<>>, rev |-> <<>>,
           flags |-> <<>>]

Flags(n) == [1..n -> BOOLEAN]

\* The calls with single paths from P, path lists from L, revisions from R.
CallsOver(P, L, R) ==
    [op : {"copy"}, a : {Single(p) : p \in P}, b : P, rev : R, flags : {<<>>}]
    \cup [op : {"move"}, a : {Single(p) : p \in P}, b : P, rev : {<<>>},
          flags : Flags(1)]
    \cup [op : {"delete", "revert"},
          a : {Single(p) : p \in P} \cup {Many(l) : l \in L},
          b : {<<>>}, rev : {<<>>}, flags : Flags(1)]
    \cup [op : {"add"}, a : {Single(p) : p \in P}, b : {<<>>}, rev : {<<>>},
          flags : Flags(3)]
    \cup [op : {"resolve"}, a : {Single(p) : p \in P}, b : {<<>>},
          rev : {<<>>}, flags : Flags(1)]

Calls == CallsOver(ArgPaths, SeqsUpTo(ArgPaths, MaxListLen), Revs)

\* Two threads: one path, the three shapes of call (two paths, a list, no
\* canonicalization).
CallsMT ==
    {c \in CallsOver({<<"a">>}, {<<<<"a">>>>}, {<<>>}) :
        /\ c.op \in {"move", "delete", "resolve"}
        /\ \A i \in 1..Len(c.flags) : ~c.flags[i]}

\* Path functions on all short strings: add for _build_path, delete and
\* revert for _build_path_list.
CallsPath ==
    {c \in CallsOver(Strs(MaxPathLen), SeqsUpTo(ArgPaths, MaxListLen), {<<>>}) :
        /\ c.op \in {"add", "delete", "revert"}
        /\ \A i \in 1..Len(c.flags) : ~c.flags[i]}

---------------------------------------------------------------------------
(* The handle *)

Ctx(h) == IF h = 1 THEN "ctx1" ELSE "ctx2"

\* self.iterpool = Pool(): every handle has a scratch pool of its own.
PoolOfShared(h) == 1

PoolOf(h) == h

\* The threads that get the reference WC() returns for handle h.
UsersOf(h) ==
    CASE mode = "single" -> IF h = 1 THEN {1} ELSE {}
      [] mode = "own" -> {h}
      [] OTHER -> IF h = 1 THEN Threads ELSE {}

\* The functions of csvn.core that return an svn_error_t raise it as an
\* exception: the error of svn_client_create_context, and of the six
\* svn_client_* entry points.
svn_client_create_context(ok) == IF ok THEN "none" ELSE "ContextCreationError"

svn_client_call(ok) == IF ok THEN "none" ELSE "EngineOperationError"

\* WC() returns the object only if __init__ did not raise.
OpenReturnsHandleAlways(ok) == TRUE

OpenReturnsHandle(ok) == ok

\* WC.__init__(path, user): user is not used.
Open(h, r, ok) ==
    /\ hstate[h] = "none"
    /\ UsersOf(h) # {}
    /\ pool' = [pool EXCEPT ![h] = "live"]
    /\ iterpool' = [iterpool EXCEPT ![PoolOf(h)] = {}]
    /\ path' = [path EXCEPT ![h] = r]
    /\ client' = [client EXCEPT ![h] = IF ok THEN Ctx(h) ELSE "NULL"]
    /\ hstate' = [hstate EXCEPT ![h] = IF ok THEN "open" ELSE "failed"]
    /\ openErr' = [openErr EXCEPT ![h] = svn_client_create_context(ok)]
    /\ ref' = [t \in Threads |->
                 IF OpenReturnsHandle(ok) /\ t \in UsersOf(h) THEN h ELSE ref[t]]
    /\ UNCHANGED <<mode, pc, call, ncall, built, inflight, clears, result,
                   lock>>

---------------------------------------------------------------------------
(* The engine invocation an operation makes *)

NoInvocation == [fn |-> "none", paths |-> <<>>, rev |-> UnspecifiedRev,
                 flags |-> <<>>, ctx |-> "NULL", pool |-> 0, held |-> {}]

EngineFn(op) ==
    CASE op = "copy" -> "svn_client_copy3"
      [] op = "move" -> "svn_client_move3"
      [] op = "delete" -> "svn_client_delete2"
      [] op = "add" -> "svn_client_add3"
      [] op = "resolve" -> "svn_client_resolved"
      [] op = "revert" -> "svn_client_revert"

\* resolve passes PATH as the caller gave it.
ResolvePathCanon(root, p) == _build_path(root, p)

ResolvePath(root, p) == p

\* The path arguments of the engine call, in argument order.
EnginePaths(root, c) ==
    CASE c.op \in {"copy", "move"} ->
            <<_build_path(root, c.a.val), _build_path(root, c.b)>>
      [] c.op = "add" -> <<_build_path(root, c.a.val)>>
      [] c.op = "resolve" -> <<ResolvePath(root, c.a.val)>>
      [] c.op \in {"delete", "revert"} -> _build_path_list(root, c.a)

\* copy does not look at what svn_opt_parse_revision returns.
CopyOutcomeChecked(status) == IF status # 0 THEN "raise" ELSE "invoke"

CopyOutcome(status) == "invoke"

\* The allocations call n of thread t makes in the scratch pool:
\* <<t, n, 0>> is the duplicate of copy's revision string, <<t, n, k>> for
\* k > 0 the k-th canonical path; PathAllocs collects the first k of these.
PathAllocs(t, n, k) == {<<t, n, i>> : i \in 1..k}

\* The calls of _build_path an operation makes before it calls the engine.
NumBuilds(root, c) ==
    IF c.op = "resolve" THEN 0 ELSE Len(EnginePaths(root, c))

IterpoolAfterBuildCleared(held, allocs) == {}

IterpoolAfterBuild(held, allocs) == held \cup allocs

ClientArgFresh(h) == "NULL"

ClientArg(h) == client[h]

\* The svn_client_* call of operation c, its path arguments being the
\* canonical paths bs built so far (for resolve, the caller's path).
Invocation(h, t, n, c, bs) ==
    [fn |-> EngineFn(c.op),
     paths |-> IF c.op = "resolve" THEN EnginePaths(path[h], c) ELSE bs,
     rev |-> IF c.op = "copy"
             THEN svn_opt_parse_revision(UnspecifiedRev, c.rev).rev
             ELSE UnspecifiedRev,
     flags |-> c.flags,
     ctx |-> ClientArg(h),
     pool |-> PoolOf(h),
     held |-> PathAllocs(t, n, Len(bs))]

Release(t) == IF lock = t THEN 0 ELSE lock

\* A thread enters a method of the handle it holds.
Call(t, c, cap) ==
    /\ pc[t] = "idle"
    /\ ref[t] # 0
    /\ ncall[t] < cap
    /\ mode = "locked" => lock = 0
    /\ ncall' = [ncall EXCEPT ![t] = @ + 1]
    /\ clears' = [clears EXCEPT ![t] = 0]
    /\ pc' = [pc EXCEPT ![t] = IF c.op = "copy" THEN "parse" ELSE "args"]
    /\ call' = [call EXCEPT ![t] = c]
    /\ lock' = IF mode = "locked" THEN t ELSE lock
    /\ UNCHANGED <<mode, hstate, path, client, pool, iterpool, openErr, ref,
                   built, inflight, result>>

\* copy: svn_opt_parse_revision duplicates the revision string into the
\* scratch pool and parses it; copy goes on whatever it returned.
Parse(t) ==
    /\ pc[t] = "parse"
    /\ LET raise == CopyOutcome(
                       svn_opt_parse_revision(UnspecifiedRev, call[t].rev).status)
                    = "raise"
       IN  /\ iterpool' = [iterpool EXCEPT
                  ![PoolOf(ref[t])] = @ \cup {<<t, ncall[t], 0>>}]
           /\ pc' = [pc EXCEPT ![t] = IF raise THEN "idle" ELSE "args"]
           /\ call' = [call EXCEPT ![t] = IF raise THEN NoCall ELSE @]
           /\ result' = [result EXCEPT
                  ![t] = IF raise THEN "InvalidRevisionError" ELSE @]
           /\ lock' = IF raise THEN Release(t) ELSE lock
    /\ UNCHANGED <<mode, hstate, path, client, pool, openErr, ref, ncall,
                   built, inflight, clears>>

\* One call of _build_path: the next path argument is canonicalized into
\* the scratch pool.
Build(t) ==
    /\ pc[t] = "args"
    /\ Len(built[t]) < NumBuilds(path[ref[t]], call[t])
    /\ LET k == Len(built[t]) + 1
       IN  /\ built' = [built EXCEPT
                  ![t] = Append(@, EnginePaths(path[ref[t]], call[t])[k])]
           /\ iterpool' = [iterpool EXCEPT ![PoolOf(ref[t])] =
                  IterpoolAfterBuild(@, {<<t, ncall[t], k>>})]
    /\ UNCHANGED <<mode, hstate, path, client, pool, openErr, ref, pc, call,
                   ncall, inflight, clears, result, lock>>

\* The arguments are evaluated: the svn_client_* function is called.
Invoke(t) ==
    /\ pc[t] = "args"
    /\ Len(built[t]) = NumBuilds(path[ref[t]], call[t])
    /\ pc' = [pc EXCEPT ![t] = "engine"]
    /\ inflight' = [inflight EXCEPT
           ![t] = Invocation(ref[t], t, ncall[t], call[t], built[t])]
    /\ UNCHANGED <<mode, hstate, path, client, pool, iterpool, openErr, ref,
                   call, ncall, built, clears, result, lock>>

\* The engine call returns, or raises: an exception leaves the method at
\* the call, and the statement after it is not executed.
EngineReturn(t, ok) ==
    /\ pc[t] = "engine"
    /\ pc' = [pc EXCEPT ![t] = IF ok THEN "clear" ELSE "idle"]
    /\ result' = [result EXCEPT ![t] = IF ok THEN @ ELSE svn_client_call(ok)]
    /\ inflight' = [inflight EXCEPT ![t] = IF ok THEN @ ELSE NoInvocation]
    /\ call' = [call EXCEPT ![t] = IF ok THEN @ ELSE NoCall]
    /\ built' = [built EXCEPT ![t] = IF ok THEN @ ELSE <<>>]
    /\ lock' = IF ok THEN lock ELSE Release(t)
    /\ UNCHANGED <<mode, hstate, path, client, pool, iterpool, openErr, ref,
                   ncall, clears>>

\* self.iterpool.clear(), and the method returns.
Clear(t) ==
    /\ pc[t] = "clear"
    /\ iterpool' = [iterpool EXCEPT ![PoolOf(ref[t])] = {}]
    /\ clears' = [clears EXCEPT ![t] = @ + 1]
    /\ pc' = [pc EXCEPT ![t] = "idle"]
    /\ result' = [result EXCEPT ![t] = "ok"]
    /\ inflight' = [inflight EXCEPT ![t] = NoInvocation]
    /\ call' = [call EXCEPT ![t] = NoCall]
    /\ built' = [built EXCEPT ![t] = <<>>]
    /\ lock' = Release(t)
    /\ UNCHANGED <<mode, hstate, path, client, pool, openErr, ref, ncall>>

---------------------------------------------------------------------------
(* Specifications *)

InitIn(modes) ==
    /\ mode \in modes
    /\ hstate = [h \in Handles |-> "none"]
    /\ path = [h \in Handles |-> <<>>]
    /\ client = [h \in Handles |-> "NULL"]
    /\ pool = [h \in Handles |-> "none"]
    /\ iterpool = [h \in Handles |-> {}]
    /\ openErr = [h \in Handles |-> "none"]
    /\ ref = [t \in Threads |-> 0]
    /\ pc = [t \in Threads |-> "idle"]
    /\ call = [t \in Threads |-> NoCall]
    /\ ncall = [t \in Threads |-> 0]
    /\ built = [t \in Threads |-> <<>>]
    /\ inflight = [t \in Threads |-> NoInvocation]
    /\ clears = [t \in Threads |-> 0]
    /\ result = [t \in Threads |-> "none"]
    /\ lock = 0

\* One thread, one handle.
Init == InitIn({"single"})

Next ==
    \/ \E h \in Handles, r \in Roots, ok \in BOOLEAN : Open(h, r, ok)
    \/ \E t \in Threads, c \in Calls : Call(t, c, MaxCalls)
    \/ \E t \in Threads : Parse(t)
    \/ \E t \in Threads : Build(t)
    \/ \E t \in Threads : Invoke(t)
    \/ \E t \in Threads, ok \in BOOLEAN : EngineReturn(t, ok)
    \/ \E t \in Threads : Clear(t)

Spec == Init /\ [][Next]_vars

\* Two threads: on one handle without synchronization ("shared"), on one
\* handle under an external mutex ("locked"), or each on its own handle
\* ("own").
InitMT == InitIn({"shared", "locked", "own"})

NextMT ==
    \/ \E h \in Handles, ok \in BOOLEAN : Open(h, <<"a">>, ok)
    \/ \E t \in Threads, c \in CallsMT : Call(t, c, MaxCallsMT)
    \/ \E t \in Threads : Build(t)
    \/ \E t \in Threads : Invoke(t)
    \/ \E t \in Threads, ok \in BOOLEAN : EngineReturn(t, ok)
    \/ \E t \in Threads : Clear(t)

SpecMT == InitMT /\ [][NextMT]_vars

\* One call of add, delete or revert on every short root and path.
NextPath ==
    \/ \E h \in Handles, r \in Strs(MaxRootLen), ok \in BOOLEAN : Open(h, r, ok)
    \/ \E t \in Threads, c \in CallsPath : Call(t, c, 1)
    \/ \E t \in Threads : Build(t)
    \/ \E t \in Threads : Invoke(t)
    \/ \E t \in Threads, ok \in BOOLEAN : EngineReturn(t, ok)
    \/ \E t \in Threads : Clear(t)

SpecPath == Init /\ [][NextPath]_vars

---------------------------------------------------------------------------
(* Properties *)

Engaged(t) == pc[t] = "engine"

HandleOf(t) == ref[t]

\* The argument of _build_path_list viewed as a sequence of paths.
AsSeq(a) == IF a.tag = "str" THEN <<a.val>> ELSE a.val

Canonical(root, p) == svn_path_canonicalize(os_path_join(root, p))

\* A path in canonical form, stated on the string itself: no empty segment,
\* no "." segment, no trailing "/" (except the path "/").
IsCanonicalForm(s) ==
    /\ \A i \in 1..(Len(s) - 1) : ~(s[i] = "/" /\ s[i + 1] = "/")
    /\ Len(s) > 1 => s[Len(s)] # "/"
    /\ \A i \in 1..Len(s) :
          s[i] = "." =>
             \/ (i > 1 /\ s[i - 1] # "/")
             \/ (i < Len(s) /\ s[i + 1] # "/")

\* A call has returned to its caller (normally or by raising).
Returned(t) == pc[t] = "idle" /\ result[t] # "none"

\* C1: every call, whether the engine succeeds or raises, clears the scratch
\* pool exactly once before it returns, so that the scratch pool of a handle
\* at rest holds no allocation of an earlier call.
C1_ScratchClearedOncePerCall ==
    \A t \in Threads :
        Returned(t) => clears[t] = 1 /\ iterpool[PoolOf(HandleOf(t))] = {}

\* C2: the engine copy is never invoked for a copy() whose non-empty
\* revision string the revision parser could not parse; such a call fails
\* with InvalidRevisionError instead.
C2_UnparsedRevisionRejected ==
    \A t \in Threads :
        (Engaged(t) /\ call[t].op = "copy" /\ call[t].rev # <<>>)
            => svn_opt_parse_revision(UnspecifiedRev, call[t].rev).status = 0

\* C3: a copy(src, dest, "") does not raise InvalidRevisionError when its
\* revision string is parsed, and svn_client_copy3 is invoked with the
\* canonicalized src and dest and the unspecified revision.
C3_EmptyRevisionAccepted ==
    /\ [][\A t \in Threads :
            (pc[t] = "parse" /\ call[t].rev = <<>> /\ pc'[t] # "parse")
                => /\ pc'[t] = "args"
                   /\ call'[t] = call[t]
                   /\ result'[t] # "InvalidRevisionError"]_vars
    /\ [](\A t \in Threads :
            (Engaged(t) /\ call[t].op = "copy" /\ call[t].rev = <<>>)
                => /\ inflight[t].fn = "svn_client_copy3"
                   /\ inflight[t].rev = UnspecifiedRev
                   /\ inflight[t].ctx = client[ref[t]]
                   /\ inflight[t].paths =
                         <<Canonical(path[ref[t]], call[t].a.val),
                           Canonical(path[ref[t]], call[t].b)>>)

C3_Witness ==
    \E t \in Threads :
        /\ Engaged(t)
        /\ call[t].op = "copy"
        /\ call[t].rev = <<>>
        /\ inflight[t].rev = UnspecifiedRev
        /\ inflight[t].paths[1] # call[t].a.val

\* C4: the list delete and revert pass to the engine has the length of the
\* input viewed as a sequence (a single path being a one-element sequence)
\* and its i-th element is the canonicalization of the i-th input path
\* joined to the root.
C4_PathListPreservesOrder ==
    \A t \in Threads :
        (Engaged(t) /\ call[t].op \in {"delete", "revert"})
            => LET in == AsSeq(call[t].a)
                   out == inflight[t].paths
               IN  /\ Len(out) = Len(in)
                   /\ \A i \in 1..Len(in) :
                         out[i] = Canonical(path[HandleOf(t)], in[i])

C4_Witness ==
    \E t \in Threads :
        /\ Engaged(t)
        /\ call[t].op = "delete"
        /\ call[t].a.tag = "list"
        /\ Len(call[t].a.val) = 2
        /\ inflight[t].paths[1] # inflight[t].paths[2]
        /\ inflight[t].paths[2] # call[t].a.val[2]

\* C5: once a handle is open, no step changes its root path, its client
\* context or its long-lived pool, and every engine invocation receives the
\* client context created when the handle was opened.
C5_HandleStateFixed ==
    /\ [][\A h \in Handles :
            hstate[h] = "open"
                => /\ hstate'[h] = "open"
                   /\ path'[h] = path[h]
                   /\ client'[h] = client[h]
                   /\ pool'[h] = pool[h]]_vars
    /\ [](\A t \in Threads :
            Engaged(t)
                => /\ inflight[t].ctx = Ctx(HandleOf(t))
                   /\ client[HandleOf(t)] = Ctx(HandleOf(t))
                   /\ pool[HandleOf(t)] = "live")

\* A call in flight after an earlier call on the same handle failed.
C5_Witness ==
    \E t \in Threads :
        /\ Engaged(t)
        /\ result[t] = "EngineOperationError"
        /\ inflight[t].ctx = Ctx(HandleOf(t))

\* The canonical paths thread t has built for a call that has not returned
\* from the engine yet.
InFlight(t) == pc[t] \in {"args", "engine"} /\ built[t] # <<>>

BuiltAllocs(t) == {<<t, ncall[t], k>> : k \in 1..Len(built[t])}

\* Some canonical path of thread t's call in flight is no longer in the
\* scratch pool it was allocated from.
Dangling(t) ==
    InFlight(t) /\ ~(BuiltAllocs(t) \subseteq iterpool[PoolOf(HandleOf(t))])

\* C6: when calls on a shared handle are serialized by a mutex, or each
\* thread has a handle of its own, no call's canonical paths are cleared
\* while its engine call is in flight (on a shared handle without
\* synchronization such a state is reached: C6_Witness).
C6_NoRaceWhenSerialized ==
    mode \in {"locked", "own"} => \A t \in Threads : ~Dangling(t)

C6_Witness ==
    /\ mode = "shared"
    /\ \E t \in Threads, u \in Threads :
          /\ t # u
          /\ Dangling(t)
          /\ pc[u] = "idle"
          /\ result[u] = "ok"

\* C7: a handle whose client context could not be created raised
\* ContextCreationError and is referenced by no thread, and every call is
\* made on an open handle whose client context was created.
C7_NoCallOnFailedOpen ==
    /\ \A h \in Handles :
          hstate[h] = "failed"
              => /\ openErr[h] = "ContextCreationError"
                 /\ \A t \in Threads : ref[t] # h
    /\ \A t \in Threads :
          (pc[t] # "idle" \/ ncall[t] > 0)
              => /\ ref[t] # 0
                 /\ hstate[ref[t]] = "open"
                 /\ client[ref[t]] # "NULL"

C7_Witness ==
    /\ hstate[1] = "failed"
    /\ openErr[1] = "ContextCreationError"
    /\ client[1] = "NULL"
    /\ \A t \in Threads : ref[t] = 0 /\ pc[t] = "idle"

\* C8 as stated: building the path again from a built path, against the same
\* root, gives the built path.
C8_Idempotent ==
    \A t \in Threads :
        (Engaged(t) /\ call[t].op = "add")
            => _build_path(path[HandleOf(t)], inflight[t].paths[1])
                  = inflight[t].paths[1]

IsAbsolute(s) == s # <<>> /\ s[1] = "/"

\* C8 amended: for a root that is absolute or canonicalizes to the empty
\* path, building the path again from a built path gives the built path.
C8_IdempotentAnchoredRoot ==
    \A t \in Threads :
        (/\ Engaged(t)
         /\ call[t].op = "add"
         /\ \/ IsAbsolute(path[HandleOf(t)])
            \/ svn_path_canonicalize(path[HandleOf(t)]) = <<>>)
            => _build_path(path[HandleOf(t)], inflight[t].paths[1])
                  = inflight[t].paths[1]

C8_Witness ==
    \E t \in Threads :
        /\ Engaged(t)
        /\ call[t].op = "add"
        /\ IsAbsolute(path[HandleOf(t)])
        /\ ~IsAbsolute(call[t].a.val)
        /\ inflight[t].paths[1] # os_path_join(path[HandleOf(t)], call[t].a.val)

\* C9: from the moment a call builds a canonical path until its engine call
\* returns, the scratch pool holds that path, and every canonical path
\* handed to the engine is an allocation of this very call.
C9_NoUseAfterClear ==
    \A t \in Threads :
        /\ InFlight(t)
              => BuiltAllocs(t) \subseteq iterpool[PoolOf(HandleOf(t))]
        /\ Engaged(t)
              => /\ inflight[t].held \subseteq iterpool[PoolOf(HandleOf(t))]
                 /\ \A a \in inflight[t].held : a[1] = t /\ a[2] = ncall[t]
                 /\ call[t].op # "resolve"
                       => Cardinality(inflight[t].held) = Len(inflight[t].paths)

\* An engine call in flight with canonical paths, in a scratch pool that
\* also holds what an earlier call left behind.
C9_Witness ==
    \E t \in Threads :
        /\ Engaged(t)
        /\ inflight[t].held # {}
        /\ \E a \in iterpool[PoolOf(HandleOf(t))] : a[2] < ncall[t]

\* C10: resolve hands the engine the caller's path unchanged; every path the
\* other five operations hand it is the canonicalization of the caller's
\* path joined to the root, and is in canonical form.
C10_ResolveNotCanonicalized ==
    \A t \in Threads :
        Engaged(t)
            => LET c == call[t]
                   root == path[HandleOf(t)]
                   out == inflight[t].paths
                   in == IF c.op \in {"copy", "move"} THEN <<c.a.val, c.b>>
                         ELSE AsSeq(c.a)
               IN  /\ Len(out) = Len(in)
                   /\ c.op = "resolve" => out = in
                   /\ c.op # "resolve"
                         => \A i \in 1..Len(in) :
                               /\ out[i] = Canonical(root, in[i])
                               /\ IsCanonicalForm(out[i])

C10_Witness ==
    \E t \in Threads :
        /\ Engaged(t)
        /\ call[t].op = "resolve"
        /\ path[HandleOf(t)] = <<"/", "a">>
        /\ inflight[t].paths = <<call[t].a.val>>
        /\ ~IsCanonicalForm(call[t].a.val)

=============================================================================
